---------------------------- MODULE Spec2Model ----------------------------
(***************************************************************************)
(* Model of the event recorder (EventRecorder.cpp / EventRecorder.h) and   *)
(* of the hook layer that calls it (EventRecorderHooks.cpp).               *)
(*                                                                         *)
(* The recorder is one process-wide object guarded by one mutex.  Worker   *)
(* threads call StartSession, StopSession and the Record* family; the      *)
(* world script calls LoadConfig after every configuration (re)load,       *)
(* without taking the mutex.  Floats are modelled by small integers and    *)
(* the JSON text of a line by a record of its fields.                      *)
(***************************************************************************)
EXTENDS Integers, Sequences, FiniteSets, TLC

\* ------------------------------------------------------------------ bounds
MaxTime == 1         \* the clock advances at most MaxTime ticks
MaxSessions == 2     \* at most MaxSessions successful StartSession calls
TickMs == 1000       \* milliseconds per clock tick
MaxNameLen == 3      \* names and other free text have at most MaxNameLen characters

\* ------------------------------------------------------- program constants
DefaultMaxEvents == 100000      \* uint32 _maxEvents = 100000

\* ------------------------------------------------------------ environment
Threads == {1, 2}
NoThread == 0

SessionNames == {"boss1"}
\* values of EventRecorder.MaxEvents, EventRecorder.DefaultRadius / --radius, --map
MaxEventsOptions == {0, 1, 2}
RadiusOptions == {0, 2}
MapOptions == {0, 2}

\* Entities of the host.  0 is the null pointer; Absent marks a field that an
\* event kind does not carry.
NullUnit == 0
Absent == -1
Units == {1, 2, 3}
Players == {1}
Creatures == {2, 3}
UnitMap(u) == CASE u = 1 -> 1 [] u = 2 -> 1 [] u = 3 -> 0
UnitInstance(u) == CASE u = 1 -> 7 [] u = 2 -> 8 [] u = 3 -> 0
UnitX(u) == CASE u = 1 -> 1 [] u = 2 -> 4 [] u = 3 -> 0
UnitY(u) == 0
UnitZ(u) == CASE u = 1 -> 0 [] u = 2 -> 0 [] u = 3 -> 1

Kinds == {"enter_combat", "leave_combat", "evade", "death", "damage", "heal",
          "aura_apply", "aura_remove", "spell_cast"}
\* Kinds whose Record* takes two entities.
TwoEntityKinds == {"enter_combat", "death", "damage", "heal"}
\* Kinds that are admitted when either entity passes the filter.
EitherKinds == {"death", "damage", "heal"}
\* Kinds with a further pointer argument (aura, aura application, spell info).
AuxKinds == {"aura_apply", "aura_remove", "spell_cast"}

VARIABLES
    \* fields of EventRecorder
    enabled, active, sessionName, outputDir, maxEvents, eventCount,
    mapFilter, instanceFilter, radius,
    recorderX, recorderY, recorderZ, recorderMapId,
    sessionStart,
    outFile,          \* [open, path]: the std::ofstream
    mutex,            \* the thread holding _mutex, or NoThread
    \* environment
    cfgDefaultRadius, \* sConfigMgr's EventRecorder.DefaultRadius
    files,            \* the file system: path -> [owner, lines]
    now,              \* the clock, in ticks
    \* threads
    pc,               \* position of each thread
    frame,            \* arguments of the Record* call a thread is inside
    result,           \* what the step just taken returned, if it was a Start/StopSession call
    \* history
    sid,              \* number of sessions started so far
    diag,             \* cap diagnostics logged since the last session began
    admitted,         \* Record* calls of the active session that reached WriteEvent
    reloaded          \* LoadConfig ran while the active session was open

recorderVars == <<enabled, active, sessionName, outputDir, maxEvents, eventCount,
                  mapFilter, instanceFilter, radius,
                  recorderX, recorderY, recorderZ, recorderMapId,
                  sessionStart, outFile>>
filterVars == <<mapFilter, instanceFilter, radius,
                recorderX, recorderY, recorderZ, recorderMapId>>
vars == <<enabled, active, sessionName, outputDir, maxEvents, eventCount,
          mapFilter, instanceFilter, radius,
          recorderX, recorderY, recorderZ, recorderMapId,
          sessionStart, outFile, mutex, cfgDefaultRadius, files, now,
          pc, frame, result, sid, diag, admitted, reloaded>>

NoFrame == [kind |-> "none"]
NoFile == [owner |-> 0, lines |-> <<>>]
NoResult == [op |-> "none", val |-> FALSE, why |-> "none"]

Min(a, b) == IF a < b THEN a ELSE b
Max(S) == CHOOSE x \in S : \A y \in S : y <= x
\* admitted is only counted up to two past the largest cap
AdmittedCap == Max(MaxEventsOptions) + 2
NowMs == now * TickMs
\* strftime("%Y%m%d_%H%M%S"): the wall clock at one-second resolution
NowSec == NowMs \div 1000

Init ==
    /\ enabled = FALSE
    /\ active = FALSE
    /\ sessionName = ""
    /\ outputDir = ""
    /\ maxEvents = DefaultMaxEvents
    /\ eventCount = 0
    /\ mapFilter = 0
    /\ instanceFilter = 0
    /\ radius = 0
    /\ recorderX = 0
    /\ recorderY = 0
    /\ recorderZ = 0
    /\ recorderMapId = 0
    /\ sessionStart = 0
    /\ outFile = [open |-> FALSE, path |-> [name |-> "", sec |-> 0]]
    /\ mutex = NoThread
    /\ cfgDefaultRadius = 0
    /\ files = [p \in {} |-> NoFile]
    /\ now = 0
    /\ pc = [t \in Threads |-> "idle"]
    /\ frame = [t \in Threads |-> NoFrame]
    /\ result = NoResult
    /\ sid = 0
    /\ diag = 0
    /\ admitted = 0
    /\ reloaded = FALSE

\* ---------------------------------------------------------------- helpers
\* a recorder whose operations do not take the mutex
MutexNotTaken == TRUE

\* std::lock_guard<std::mutex> lock(_mutex) can be taken
MutexFree == mutex = NoThread

\* GetSessionTime with the operands of its subtraction exchanged
GetSessionTimeReversed == sessionStart - NowMs

\* double GetSessionTime(): milliseconds elapsed since _sessionStart
GetSessionTime == NowMs - sessionStart

\* PassesFilters whose radius test rejects the distance exactly _radius too
PassesFiltersBoundaryExclusive(unit) ==
    IF unit = NullUnit THEN FALSE
    ELSE IF mapFilter # 0 /\ UnitMap(unit) # mapFilter THEN FALSE
    ELSE IF radius > 0 /\ UnitMap(unit) = recorderMapId
         THEN LET dx == UnitX(unit) - recorderX
                  dy == UnitY(unit) - recorderY
                  dz == UnitZ(unit) - recorderZ
                  distSq == dx * dx + dy * dy + dz * dz
              IN  ~(distSq >= radius * radius)
         ELSE TRUE

\* IsActiveForMap without its test of the instance filter
IsActiveForMapNoInstanceTest(mapId, instanceId) ==
    IF ~active THEN FALSE
    ELSE IF mapFilter # 0 /\ mapFilter # mapId THEN FALSE
    ELSE TRUE

\* bool IsActiveForMap(uint32 mapId, uint32 instanceId)
IsActiveForMap(mapId, instanceId) ==
    IF ~active THEN FALSE
    ELSE IF mapFilter # 0 /\ mapFilter # mapId THEN FALSE
    ELSE IF instanceFilter # 0 /\ instanceFilter # instanceId THEN FALSE
    ELSE TRUE

\* GetSessionInfo that reports the configured DefaultRadius as the radius
GetSessionInfoDefaultRadius ==
    IF ~active THEN [text |-> "No active recording session."]
    ELSE [text |-> "Session", name |-> sessionName, map |-> mapFilter,
          events |-> eventCount, max |-> maxEvents, elapsed |-> GetSessionTime,
          radius |-> cfgDefaultRadius]

\* std::string GetSessionInfo(): the fixed message, or the fields formatted
GetSessionInfo ==
    IF ~active THEN [text |-> "No active recording session."]
    ELSE [text |-> "Session", name |-> sessionName, map |-> mapFilter,
          events |-> eventCount, max |-> maxEvents, elapsed |-> GetSessionTime,
          radius |-> radius]

\* PassesFilters without the test of the map filter
PassesFiltersNoMapTest(unit) ==
    IF unit = NullUnit THEN FALSE
    ELSE IF radius > 0 /\ UnitMap(unit) = recorderMapId
         THEN LET dx == UnitX(unit) - recorderX
                  dy == UnitY(unit) - recorderY
                  dz == UnitZ(unit) - recorderZ
                  distSq == dx * dx + dy * dy + dz * dz
              IN  ~(distSq > radius * radius)
         ELSE TRUE

\* bool PassesFilters(Unit const* unit)
PassesFilters(unit) ==
    IF unit = NullUnit THEN FALSE
    ELSE IF mapFilter # 0 /\ UnitMap(unit) # mapFilter THEN FALSE
    ELSE IF radius > 0 /\ UnitMap(unit) = recorderMapId
         THEN LET dx == UnitX(unit) - recorderX
                  dy == UnitY(unit) - recorderY
                  dz == UnitZ(unit) - recorderZ
                  distSq == dx * dx + dy * dy + dz * dz
              IN  ~(distSq > radius * radius)
         ELSE TRUE

\* The stream state WriteEvent works on: the ofstream, the file system, the
\* counter and the diagnostics log.
Stream == [open |-> outFile.open, path |-> outFile.path, files |-> files,
           eventCount |-> eventCount, diag |-> diag]

\* uint32 _eventCount, _maxEvents: the width of the counter, scaled from 32
\* bits to 30 so that its values are integers of the checker
UIntModulus == 1073741824
UIntMax == UIntModulus - 1
\* _eventCount++ on the unsigned counter: it wraps around to 0
Incr(c) == (c + 1) % UIntModulus

\* WriteEvent without its test of _outFile.is_open(): the write to a closed
\* stream is lost, the counting goes on
WriteEventNoOpenTest(st, jsonLine) ==
    IF st.eventCount >= maxEvents
    THEN IF st.eventCount = maxEvents
         THEN [st EXCEPT !.diag = @ + 1, !.eventCount = Incr(@)]
         ELSE st
    ELSE [st EXCEPT !.files = IF st.open
                              THEN [@ EXCEPT ![st.path].lines = Append(@, jsonLine)]
                              ELSE @,
                    !.eventCount = Incr(@)]

\* WriteEvent whose cap test lets the counter reach _maxEvents + 1
WriteEventCapOffByOne(st, jsonLine) ==
    IF ~st.open THEN st
    ELSE IF st.eventCount > maxEvents
    THEN IF st.eventCount = maxEvents + 1
         THEN [st EXCEPT !.diag = @ + 1,
                         !.eventCount = Incr(@)]
         ELSE st
    ELSE [st EXCEPT !.files = [@ EXCEPT ![st.path].lines = Append(@, jsonLine)],
                    !.eventCount = Incr(@)]

\* void WriteEvent(std::string const& jsonLine); caller holds _mutex
WriteEvent(st, jsonLine) ==
    IF ~st.open THEN st
    ELSE IF st.eventCount >= maxEvents
    THEN IF st.eventCount = maxEvents
         THEN [st EXCEPT !.diag = @ + 1,
                         !.eventCount = Incr(@)]
         ELSE st
    ELSE [st EXCEPT !.files = [@ EXCEPT ![st.path].lines = Append(@, jsonLine)],
                    !.eventCount = Incr(@)]

\* ------------------------------------------------------------- operations
\* void LoadConfig(), called by OnAfterConfigLoad with the options just read
LoadConfig(en, mx, defaultRadius) ==
    /\ enabled' = en
    /\ outputDir' = "recordings"
    /\ maxEvents' = mx
    /\ cfgDefaultRadius' = defaultRadius
    /\ radius' = IF defaultRadius > 0 THEN defaultRadius ELSE radius
    /\ UNCHANGED <<active, sessionName, eventCount, mapFilter, instanceFilter,
                   recorderX, recorderY, recorderZ, recorderMapId, sessionStart,
                   outFile, mutex, files, now, pc, frame, sid, diag,
                   admitted>>
    /\ reloaded' = active
    /\ result' = NoResult

\* Time passes.
Tick ==
    /\ now < MaxTime
    /\ now' = now + 1
    /\ result' = NoResult
    /\ UNCHANGED <<recorderVars, mutex, cfgDefaultRadius, files, pc, frame,
                   sid, diag, admitted, reloaded>>

StartFails(why) ==
    /\ result' = [op |-> "StartSession", val |-> FALSE, why |-> why]
    /\ UNCHANGED <<recorderVars, mutex, cfgDefaultRadius, files, now, pc, frame,
                   sid, diag, admitted, reloaded>>

\* StartSession whose origin's map replaces the --map argument
StartMapFilterOriginWins(player, mapArg) ==
    IF player # NullUnit THEN UnitMap(player) ELSE mapArg

\* StartSession: the value given to _mapFilter
StartMapFilter(player, mapArg) ==
    IF player # NullUnit /\ mapArg = 0 THEN UnitMap(player) ELSE mapArg

\* StartSession that keeps a positive radius left in _radius
StartRadiusLeftoverWins(radiusArg) ==
    IF radius > 0 THEN radius
    ELSE IF radiusArg > 0 THEN radiusArg
    ELSE cfgDefaultRadius

\* StartSession: the value given to _radius; sConfigMgr is read again when no
\* positive radius is given and none is left in _radius
StartRadius(radiusArg) ==
    IF radiusArg > 0 THEN radiusArg
    ELSE IF radius <= 0 THEN cfgDefaultRadius
    ELSE radius

\* StartSession whose file name lacks the timestamp
StartOpenedNameOnly(name, player, mapArg, radiusArg) ==
    LET filename == [name |-> name, sec |-> 0]
        mf == StartMapFilter(player, mapArg)
        rad == StartRadius(radiusArg)
        startEvent == [t |-> 0, event |-> "record_start", session |-> name,
                       map |-> mf, file |-> filename]
        opened == [open |-> TRUE, path |-> filename,
                   files |-> [p \in DOMAIN files \cup {filename} |->
                                IF p = filename
                                THEN [owner |-> sid + 1, lines |-> <<>>]
                                ELSE files[p]],
                   eventCount |-> 0, diag |-> 0]
        st == WriteEvent(opened, startEvent)
    IN  /\ sid < MaxSessions
        /\ sessionName' = name
        /\ mapFilter' = mf
        /\ IF player # NullUnit
           THEN /\ recorderX' = UnitX(player)
                /\ recorderY' = UnitY(player)
                /\ recorderZ' = UnitZ(player)
                /\ recorderMapId' = UnitMap(player)
                /\ instanceFilter' = UnitInstance(player)
           ELSE UNCHANGED <<recorderX, recorderY, recorderZ, recorderMapId,
                            instanceFilter>>
        /\ radius' = rad
        /\ sessionStart' = NowMs
        /\ active' = TRUE
        /\ outFile' = [open |-> TRUE, path |-> filename]
        /\ files' = st.files
        /\ eventCount' = st.eventCount
        /\ diag' = st.diag
        /\ sid' = sid + 1
        /\ admitted' = 0
        /\ reloaded' = FALSE
        /\ result' = [op |-> "StartSession", val |-> TRUE, why |-> "ok"]
        /\ UNCHANGED <<enabled, outputDir, maxEvents, mutex, cfgDefaultRadius,
                       now, pc, frame>>

\* StartSession from the open of the output file on (the file is open):
\* sets the session fields, writes the start event, returns true
StartOpened(name, player, mapArg, radiusArg) ==
    LET filename == [name |-> name, sec |-> NowSec]
        mf == StartMapFilter(player, mapArg)
        rad == StartRadius(radiusArg)
        startEvent == [t |-> 0, event |-> "record_start", session |-> name,
                       map |-> mf, file |-> filename]
        opened == [open |-> TRUE, path |-> filename,
                   files |-> [p \in DOMAIN files \cup {filename} |->
                                IF p = filename
                                THEN [owner |-> sid + 1, lines |-> <<>>]
                                ELSE files[p]],
                   eventCount |-> 0, diag |-> 0]
        st == WriteEvent(opened, startEvent)
    IN  /\ sid < MaxSessions
        /\ sessionName' = name
        /\ mapFilter' = mf
        /\ IF player # NullUnit
           THEN /\ recorderX' = UnitX(player)
                /\ recorderY' = UnitY(player)
                /\ recorderZ' = UnitZ(player)
                /\ recorderMapId' = UnitMap(player)
                /\ instanceFilter' = UnitInstance(player)
           ELSE UNCHANGED <<recorderX, recorderY, recorderZ, recorderMapId,
                            instanceFilter>>
        /\ radius' = rad
        /\ sessionStart' = NowMs
        /\ active' = TRUE
        /\ outFile' = [open |-> TRUE, path |-> filename]
        /\ files' = st.files
        /\ eventCount' = st.eventCount
        /\ diag' = st.diag
        /\ sid' = sid + 1
        /\ admitted' = 0
        /\ reloaded' = FALSE
        /\ result' = [op |-> "StartSession", val |-> TRUE, why |-> "ok"]
        /\ UNCHANGED <<enabled, outputDir, maxEvents, mutex, cfgDefaultRadius,
                       now, pc, frame>>

\* StartSession without its test of _active
StartSessionNoActiveTest(t, name, player, mapArg, radiusArg, dirOk, openOk) ==
    /\ pc[t] = "idle"
    /\ MutexFree
    /\ IF ~enabled THEN StartFails("disabled")
       ELSE IF ~dirOk THEN StartFails("dir")
       ELSE IF ~openOk THEN StartFails("open")
       ELSE StartOpened(name, player, mapArg, radiusArg)

\* StartSession that assigns the session name, the counter and the map
\* filter before it opens the output file
StartSessionFieldsBeforeOpen(t, name, player, mapArg, radiusArg, dirOk, openOk) ==
    /\ pc[t] = "idle"
    /\ MutexFree
    /\ IF active THEN StartFails("active")
       ELSE IF ~enabled THEN StartFails("disabled")
       ELSE IF ~dirOk THEN StartFails("dir")
       ELSE IF ~openOk
       THEN /\ result' = [op |-> "StartSession", val |-> FALSE, why |-> "open"]
            /\ sessionName' = name
            /\ eventCount' = 0
            /\ mapFilter' = mapArg
            /\ UNCHANGED <<enabled, active, outputDir, maxEvents, instanceFilter,
                           radius, recorderX, recorderY, recorderZ, recorderMapId,
                           sessionStart, outFile, mutex, cfgDefaultRadius, files,
                           now, pc, frame, sid, diag, admitted, reloaded>>
       ELSE StartOpened(name, player, mapArg, radiusArg)

\* bool StartSession(sessionName, player, mapFilter, radius); dirOk and openOk
\* are the outcomes of create_directories and of _outFile.open
StartSession(t, name, player, mapArg, radiusArg, dirOk, openOk) ==
    /\ pc[t] = "idle"
    /\ MutexFree
    /\ IF active THEN StartFails("active")
       ELSE IF ~enabled THEN StartFails("disabled")
       ELSE IF ~dirOk THEN StartFails("dir")
       ELSE IF ~openOk THEN StartFails("open")
       ELSE StartOpened(name, player, mapArg, radiusArg)

\* StopSession from the stop event on: writes it, closes the file when
\* close is TRUE, marks the session inactive and resets the filters
StopActive(close) ==
    LET duration == GetSessionTime
        stopEvent == [t |-> duration, event |-> "record_stop",
                      session |-> sessionName, duration |-> duration,
                      events_captured |-> eventCount]
        st == WriteEvent(Stream, stopEvent)
    IN  /\ files' = st.files
        /\ eventCount' = st.eventCount
        /\ diag' = st.diag
        /\ outFile' = IF close THEN [outFile EXCEPT !.open = FALSE] ELSE outFile
        /\ active' = FALSE
        /\ mapFilter' = 0
        /\ instanceFilter' = 0
        /\ radius' = 0
        /\ recorderX' = 0
        /\ recorderY' = 0
        /\ recorderZ' = 0
        /\ recorderMapId' = 0
        /\ admitted' = 0
        /\ reloaded' = FALSE
        /\ result' = [op |-> "StopSession", val |-> TRUE, why |-> "ok"]
        /\ UNCHANGED <<enabled, sessionName, outputDir, maxEvents, sessionStart,
                       mutex, cfgDefaultRadius, now, pc, frame, sid>>

\* StopSession without its test of _active
StopSessionNoActiveTest(t) ==
    /\ pc[t] = "idle"
    /\ MutexFree
    /\ StopActive(TRUE)

\* StopSession without _outFile.close()
StopSessionNoClose(t) ==
    /\ pc[t] = "idle"
    /\ MutexFree
    /\ IF ~active
       THEN /\ result' = [op |-> "StopSession", val |-> FALSE, why |-> "inactive"]
            /\ UNCHANGED <<recorderVars, mutex, cfgDefaultRadius, files, now, pc,
                           frame, sid, diag, admitted, reloaded>>
       ELSE StopActive(FALSE)

\* StopSession that does not reset _radius
StopSessionKeepsRadius(t) ==
    /\ pc[t] = "idle"
    /\ MutexFree
    /\ IF ~active
       THEN /\ result' = [op |-> "StopSession", val |-> FALSE, why |-> "inactive"]
            /\ UNCHANGED <<recorderVars, mutex, cfgDefaultRadius, files, now, pc,
                           frame, sid, diag, admitted, reloaded>>
       ELSE LET st == WriteEvent(Stream, [t |-> GetSessionTime, event |-> "record_stop",
                                          session |-> sessionName,
                                          duration |-> GetSessionTime,
                                          events_captured |-> eventCount])
            IN  /\ files' = st.files
                /\ eventCount' = st.eventCount
                /\ diag' = st.diag
                /\ outFile' = [outFile EXCEPT !.open = FALSE]
                /\ active' = FALSE
                /\ mapFilter' = 0
                /\ instanceFilter' = 0
                /\ recorderX' = 0
                /\ recorderY' = 0
                /\ recorderZ' = 0
                /\ recorderMapId' = 0
                /\ admitted' = 0
                /\ reloaded' = FALSE
                /\ result' = [op |-> "StopSession", val |-> TRUE, why |-> "ok"]
                /\ UNCHANGED <<enabled, sessionName, outputDir, maxEvents, radius,
                               sessionStart, mutex, cfgDefaultRadius, now, pc,
                               frame, sid>>

\* bool StopSession()
StopSession(t) ==
    /\ pc[t] = "idle"
    /\ MutexFree
    /\ IF ~active
       THEN /\ result' = [op |-> "StopSession", val |-> FALSE, why |-> "inactive"]
            /\ UNCHANGED <<recorderVars, mutex, cfgDefaultRadius, files, now, pc,
                           frame, sid, diag, admitted, reloaded>>
       ELSE StopActive(TRUE)

\* RecordEnterCombat that is admitted when either entity passes
AdmitsEnterCombatEither(kind, a, b, auxOk) ==
    /\ IF kind \in EitherKinds \cup {"enter_combat"}
       THEN PassesFilters(a) \/ PassesFilters(b)
       ELSE PassesFilters(a)
    /\ kind \in AuxKinds => auxOk

\* Record* of the two-sided kinds that needs both entities to pass
AdmitsBothRequired(kind, a, b, auxOk) ==
    /\ IF kind \in EitherKinds THEN PassesFilters(a) /\ PassesFilters(b)
       ELSE PassesFilters(a)
    /\ kind \in AuxKinds => auxOk

\* RecordEvade without its test of the filters
AdmitsEvadeUnfiltered(kind, a, b, auxOk) ==
    /\ IF kind \in EitherKinds THEN PassesFilters(a) \/ PassesFilters(b)
       ELSE IF kind = "evade" THEN a # NullUnit
       ELSE PassesFilters(a)
    /\ kind \in AuxKinds => auxOk

\* The admission test of each Record* kind; auxOk: the aura / aura
\* application / spell info pointer is not null
Admits(kind, a, b, auxOk) ==
    /\ IF kind \in EitherKinds THEN PassesFilters(a) \/ PassesFilters(b)
       ELSE PassesFilters(a)
    /\ kind \in AuxKinds => auxOk

\* The entities a Record* kind can be called with.
FirstArgs(kind) ==
    CASE kind = "leave_combat" -> Creatures \cup {NullUnit}
      [] kind = "spell_cast" -> Players \cup {NullUnit}
      [] OTHER -> Units \cup {NullUnit}
SecondArgs(kind) ==
    IF kind \in TwoEntityKinds THEN Units \cup {NullUnit} ELSE {Absent}

\* ------------------------------------------------------------- formatting
\* Characters of a free-text field (std::string of char): two ordinary
\* letters, the quote, the backslash, newline, carriage return, tab, and
\* "ctl", a control character other than these three (0x01).  The letters
\* "r" and "t" only occur in the output, after a backslash.
Chars == {"a", "n", "quote", "backslash", "nl", "cr", "tab", "ctl"}
Names == UNION {[1..n -> Chars] : n \in 0..MaxNameLen}

\* unit->IsCreature() / unit->IsPlayer()
UnitType(u) == IF u \in Creatures THEN "creature"
               ELSE IF u \in Players THEN "player"
               ELSE "unit"

\* EscapeJson without its case for the backslash
EscapeJsonNoBackslash(input) ==
    LET esc(c) == CASE c = "quote" -> <<"backslash", "quote">>
                    [] c = "nl" -> <<"backslash", "n">>
                    [] c = "cr" -> <<"backslash", "r">>
                    [] c = "tab" -> <<"backslash", "t">>
                    [] OTHER -> <<c>>
        out[i \in 0..Len(input)] == IF i = 0 THEN <<>> ELSE out[i - 1] \o esc(input[i])
    IN  out[Len(input)]

\* std::string EscapeJson(std::string const& input): the switch on each char
EscapeJson(input) ==
    LET esc(c) == CASE c = "quote" -> <<"backslash", "quote">>
                    [] c = "backslash" -> <<"backslash", "backslash">>
                    [] c = "nl" -> <<"backslash", "n">>
                    [] c = "cr" -> <<"backslash", "r">>
                    [] c = "tab" -> <<"backslash", "t">>
                    [] OTHER -> <<c>>
        out[i \in 0..Len(input)] == IF i = 0 THEN <<>> ELSE out[i - 1] \o esc(input[i])
    IN  out[Len(input)]

\* FormatUnit that leaves a null entity out instead of writing the null marker
FormatUnitNullOmitted(unit, name) ==
    IF unit = NullUnit THEN [json |-> "omitted"]
    ELSE IF UnitType(unit) = "player"
    THEN [json |-> "object", type |-> "player", name |-> EscapeJson(name),
          guid |-> unit]
    ELSE [json |-> "object", type |-> UnitType(unit), entry |-> unit,
          name |-> EscapeJson(name), guid |-> unit]

\* std::string FormatUnit(Unit const* unit); name is unit->GetName().  The
\* descriptor is the literal null, or an object whose fields depend on the
\* type of the unit.
FormatUnit(unit, name) ==
    IF unit = NullUnit THEN [json |-> "null"]
    ELSE IF UnitType(unit) = "player"
    THEN [json |-> "object", type |-> "player", name |-> EscapeJson(name),
          guid |-> unit]
    ELSE [json |-> "object", type |-> UnitType(unit), entry |-> unit,
          name |-> EscapeJson(name), guid |-> unit]

\* The event name in the format string of each Record*.
EventName(kind) ==
    CASE kind = "enter_combat" -> "enter_combat"
      [] kind = "leave_combat" -> "leave_combat"
      [] kind = "evade" -> "evade"
      [] kind = "death" -> "death"
      [] kind = "damage" -> "damage"
      [] kind = "heal" -> "heal"
      [] kind = "aura_apply" -> "aura_apply"
      [] kind = "aura_remove" -> "aura_remove"
      [] kind = "spell_cast" -> "spell_cast"

\* The line each Record* formats: a and b its entities, nameA and nameB
\* their names, text the spell name
RecordJson(kind, a, b, nameA, nameB, text) ==
    CASE kind = "enter_combat" ->
           [t |-> GetSessionTime, event |-> EventName(kind),
            source |-> FormatUnit(a, nameA), target |-> FormatUnit(b, nameB)]
      [] kind = "leave_combat" ->
           [t |-> GetSessionTime, event |-> EventName(kind),
            source |-> FormatUnit(a, nameA)]
      [] kind = "evade" ->
           [t |-> GetSessionTime, event |-> EventName(kind),
            source |-> FormatUnit(a, nameA), reason |-> 0]
      [] kind = "death" ->
           [t |-> GetSessionTime, event |-> EventName(kind),
            source |-> FormatUnit(a, nameA), killer |-> FormatUnit(b, nameB)]
      [] kind \in {"damage", "heal"} ->
           [t |-> GetSessionTime, event |-> EventName(kind),
            source |-> FormatUnit(a, nameA), target |-> FormatUnit(b, nameB),
            amount |-> 0]
      [] kind = "aura_apply" ->
           [t |-> GetSessionTime, event |-> EventName(kind),
            target |-> FormatUnit(a, nameA), spell_id |-> 0,
            spell_name |-> EscapeJson(text)]
      [] kind = "aura_remove" ->
           [t |-> GetSessionTime, event |-> EventName(kind),
            target |-> FormatUnit(a, nameA), spell_id |-> 0,
            spell_name |-> EscapeJson(text), remove_mode |-> 0]
      [] kind = "spell_cast" ->
           [t |-> GetSessionTime, event |-> EventName(kind),
            source |-> FormatUnit(a, nameA), spell_id |-> 0,
            spell_name |-> EscapeJson(text)]

\* unit->GetName() of the entities of the host, and a spell name
UnitName(u) == CASE u = 1 -> <<"a">> [] u = 2 -> <<"n", "quote">> [] u = 3 -> <<"a", "nl">>
                 [] OTHER -> <<>>
SpellName == <<"a", "backslash">>

\* Record*(...): takes the mutex and tests the filters; returns at once when
\* the event is not admitted.  The hooks call Record* after an IsActive() test
\* made without the mutex, which may be stale by the time the mutex is taken,
\* so a Record* call can begin in any state of the recorder.
RecordFilter(t, kind, a, b, auxOk) ==
    /\ pc[t] = "idle"
    /\ MutexFree
    /\ IF Admits(kind, a, b, auxOk)
       THEN /\ mutex' = t
            /\ pc' = [pc EXCEPT ![t] = "record"]
            /\ frame' = [frame EXCEPT ![t] =
                           [kind |-> kind, a |-> a, b |-> b,
                            fsid |-> IF active THEN sid ELSE 0]]
       ELSE /\ pc' = [pc EXCEPT ![t] = "idle"]
            /\ UNCHANGED <<mutex, frame>>
    /\ result' = NoResult
    /\ UNCHANGED <<recorderVars, cfgDefaultRadius, files, now, sid, diag,
                   admitted, reloaded>>

\* Record*(...), continued: formats the line with GetSessionTime(), calls
\* WriteEvent and releases the mutex
RecordWrite(t) ==
    /\ pc[t] = "record"
    /\ LET json == [t |-> GetSessionTime, event |-> frame[t].kind,
                    first |-> frame[t].a, second |-> frame[t].b,
                    fsid |-> frame[t].fsid,
                    wsid |-> IF active THEN sid ELSE 0,
                    json |-> RecordJson(frame[t].kind, frame[t].a, frame[t].b,
                                        UnitName(frame[t].a), UnitName(frame[t].b),
                                        SpellName)]
           st == WriteEvent(Stream, json)
       IN  /\ files' = st.files
           /\ eventCount' = st.eventCount
           /\ diag' = st.diag
    /\ admitted' = IF outFile.open THEN Min(admitted + 1, AdmittedCap) ELSE admitted
    /\ mutex' = NoThread
    /\ pc' = [pc EXCEPT ![t] = "idle"]
    /\ frame' = [frame EXCEPT ![t] = NoFrame]
    /\ UNCHANGED <<enabled, active, sessionName, outputDir, maxEvents, mapFilter,
                   instanceFilter, radius, recorderX, recorderY, recorderZ,
                   recorderMapId, sessionStart, outFile, cfgDefaultRadius, now,
                   sid, reloaded>>
    /\ result' = NoResult

\* The inputs Spec calls the operations with.
\* Configurations a (re)load can bring.
ConfigOptions ==
    [en : {TRUE}, mx : MaxEventsOptions, dr : {0}]
    \cup [en : {FALSE}, mx : {Max(MaxEventsOptions)}, dr : {0}]
\* .record start <name> [--map m] [--radius r], with or without a player.
\* StartSession reads none of its arguments on its two early returns, and
\* does not reach the open when the directory cannot be created.
StartCalls ==
    {[name |-> "boss1", player |-> NullUnit, map |-> 0, radius |-> 0],
     [name |-> "boss1", player |-> NullUnit, map |-> 2, radius |-> 0],
     [name |-> "boss1", player |-> 1, map |-> 0, radius |-> 2]}
StartArgs ==
    IF active \/ ~enabled
    THEN {[call |-> CHOOSE c \in StartCalls : TRUE, dirOk |-> TRUE, openOk |-> TRUE]}
    ELSE [call : StartCalls, dirOk : {TRUE}, openOk : BOOLEAN]
         \cup {[call |-> CHOOSE c \in StartCalls : TRUE, dirOk |-> FALSE,
                openOk |-> TRUE]}
RecordKinds == {"damage"}
RecordFirst == {1}
RecordSecond == {NullUnit}

Next ==
    \/ \E c \in ConfigOptions : LoadConfig(c.en, c.mx, c.dr)
    \/ Tick
    \/ \E t \in Threads, arg \in StartArgs :
          StartSession(t, arg.call.name, arg.call.player, arg.call.map,
                       arg.call.radius, arg.dirOk, arg.openOk)
    \/ \E t \in Threads : StopSession(t)
    \/ \E t \in Threads, kind \in RecordKinds, auxOk \in BOOLEAN :
          \E a \in FirstArgs(kind) \cap RecordFirst,
             b \in SecondArgs(kind) \cap RecordSecond :
             RecordFilter(t, kind, a, b, auxOk)
    \/ \E t \in Threads : RecordWrite(t)

Spec == Init /\ [][Next]_vars

\* ------------------------------------------------- the filters, on their own
\* The filter fields of a running session: any map filter (--map), any radius
\* (--radius, or a DefaultRadius read from the configuration, which may be
\* negative), any anchor.
FilterMaps == {0, 1, 2}
FilterRadii == {-1, 0, 1, 2, 3}
AnchorXs == {0, 1, 4}
AnchorYs == {0, 2}
AnchorZs == {0, 1}
FilterFile == [name |-> "boss1", sec |-> 0]

\* A session is running, with filter fields drawn from the sets above.
FilterInit ==
    /\ enabled = TRUE
    /\ active = TRUE
    /\ sessionName = "boss1"
    /\ outputDir = "recordings"
    /\ maxEvents \in {2, 3}
    /\ eventCount = 1
    /\ mapFilter \in FilterMaps
    /\ instanceFilter \in {0, 7}
    /\ radius \in FilterRadii
    /\ recorderX \in AnchorXs
    /\ recorderY \in AnchorYs
    /\ recorderZ \in AnchorZs
    /\ recorderMapId \in FilterMaps
    \* with an origin and no --map, the map filter is the origin's map
    /\ mapFilter = 0 => recorderMapId = 0
    /\ sessionStart = 0
    /\ outFile = [open |-> TRUE, path |-> FilterFile]
    /\ mutex = NoThread
    /\ cfgDefaultRadius = 0
    /\ files = [p \in {FilterFile} |->
                  [owner |-> 1,
                   lines |-> <<[t |-> 0, event |-> "record_start",
                                session |-> "boss1", map |-> mapFilter,
                                file |-> FilterFile]>>]]
    /\ now = 0
    /\ pc = [t \in Threads |-> "idle"]
    /\ frame = [t \in Threads |-> NoFrame]
    /\ result = NoResult
    /\ sid = 1
    /\ diag = 0
    /\ admitted = 0
    /\ reloaded = FALSE

\* PassesFilters(unit), called by a Record* that holds the mutex; result
\* keeps the unit it was called with and the value it returned
CallPassesFilters(t, unit) ==
    /\ pc[t] = "idle"
    /\ MutexFree
    /\ result' = [op |-> "PassesFilters", val |-> PassesFilters(unit),
                  why |-> "none", unit |-> unit]
    /\ UNCHANGED <<recorderVars, mutex, cfgDefaultRadius, files, now, pc, frame,
                   sid, diag, admitted, reloaded>>

FilterNext == \E t \in Threads, unit \in Units \cup {NullUnit} : CallPassesFilters(t, unit)

FilterSpec == FilterInit /\ [][FilterNext]_vars

\* ------------------------------------------- one operator, whole sessions
\* .record start with every combination of origin, --map and --radius, and
\* configurations with and without a DefaultRadius
SessionConfigs == [en : {TRUE}, mx : {2}, dr : {0, 3}]
SessionCalls == [name : SessionNames, player : Players \cup {NullUnit},
                 map : MapOptions, radius : RadiusOptions \cup {-1}]
ScopeMaps == {0, 1, 2}
ScopeInstances == {0, 7, 8}

\* IsActiveForMap(mapId, instanceId), called by a hook; takes no mutex
CallIsActiveForMap(t, mapId, instanceId) ==
    /\ pc[t] = "idle"
    /\ result' = [op |-> "IsActiveForMap", val |-> IsActiveForMap(mapId, instanceId),
                  why |-> "none", mapId |-> mapId, instanceId |-> instanceId]
    /\ UNCHANGED <<recorderVars, mutex, cfgDefaultRadius, files, now, pc, frame,
                   sid, diag, admitted, reloaded>>

\* GetSessionInfo(), called by .record start, stop and status; takes no mutex
CallGetSessionInfo(t) ==
    /\ pc[t] = "idle"
    /\ result' = [op |-> "GetSessionInfo", val |-> active, why |-> "none",
                  info |-> GetSessionInfo]
    /\ UNCHANGED <<recorderVars, mutex, cfgDefaultRadius, files, now, pc, frame,
                   sid, diag, admitted, reloaded>>

SessionNext ==
    \/ \E c \in SessionConfigs : LoadConfig(c.en, c.mx, c.dr)
    \/ \E t \in Threads, c \in SessionCalls, dirOk \in BOOLEAN, openOk \in BOOLEAN :
          StartSession(t, c.name, c.player, c.map, c.radius, dirOk, openOk)
    \/ \E t \in Threads : StopSession(t)
    \/ \E t \in Threads, mapId \in ScopeMaps, instanceId \in ScopeInstances :
          CallIsActiveForMap(t, mapId, instanceId)
    \/ \E t \in Threads : CallGetSessionInfo(t)

SessionSpec == Init /\ [][SessionNext]_vars

\* --------------------------------------- every Record* kind, one session
\* The filter fields of the running session: a map filter that leaves one
\* entity out, a map filter and a radius about the origin that leave two
\* out, a radius alone, a map filter no entity is on, and no filter at all.
RecordFilterCases ==
    {[map |-> 1, instance |-> 0, radius |-> 0, x |-> 0, y |-> 0, z |-> 0, amap |-> 0],
     [map |-> 1, instance |-> 7, radius |-> 2, x |-> 1, y |-> 0, z |-> 0, amap |-> 1],
     [map |-> 0, instance |-> 0, radius |-> 2, x |-> 4, y |-> 0, z |-> 1, amap |-> 0],
     [map |-> 2, instance |-> 0, radius |-> 0, x |-> 0, y |-> 0, z |-> 0, amap |-> 0],
     [map |-> 0, instance |-> 0, radius |-> 0, x |-> 0, y |-> 0, z |-> 0, amap |-> 0]}

\* A session is running, one event short of its cap.
RecordInit ==
    /\ enabled = TRUE
    /\ active = TRUE
    /\ sessionName = "boss1"
    /\ outputDir = "recordings"
    /\ maxEvents = 2
    /\ eventCount = 1
    /\ \E c \in RecordFilterCases :
          /\ mapFilter = c.map
          /\ instanceFilter = c.instance
          /\ radius = c.radius
          /\ recorderX = c.x
          /\ recorderY = c.y
          /\ recorderZ = c.z
          /\ recorderMapId = c.amap
    /\ sessionStart = 0
    /\ outFile = [open |-> TRUE, path |-> FilterFile]
    /\ mutex = NoThread
    /\ cfgDefaultRadius = 0
    /\ files = [p \in {FilterFile} |->
                  [owner |-> 1,
                   lines |-> <<[t |-> 0, event |-> "record_start",
                                session |-> "boss1", map |-> mapFilter,
                                file |-> FilterFile]>>]]
    /\ now = 0
    /\ pc = [t \in Threads |-> "idle"]
    /\ frame = [t \in Threads |-> NoFrame]
    /\ result = NoResult
    /\ sid = 1
    /\ diag = 0
    /\ admitted = 0
    /\ reloaded = FALSE

RecordNext ==
    \/ \E t \in Threads, kind \in Kinds, auxOk \in BOOLEAN :
          \E a \in FirstArgs(kind), b \in SecondArgs(kind) :
             RecordFilter(t, kind, a, b, auxOk)
    \/ \E t \in Threads : RecordWrite(t)

RecordSpec == RecordInit /\ [][RecordNext]_vars

\* ------------------------------------------------- formatting, on its own
\* The calls of the formatting functions: a text to escape, a unit and its
\* name to describe, the entities of a Record* and the name they have.
\* The session names .record start passes on: the first token of the
\* arguments, which holds no whitespace and is not empty.
CommandNames == {name \in Names : /\ name # <<>>
                                  /\ \A i \in 1..Len(name) :
                                        name[i] \notin {"nl", "cr", "tab"}}
\* StartSession: "{}/{}_{}.jsonl" of _outputDir, sessionName and timeBuf
FileNameText(name) == <<"recordings", "/">> \o name \o <<"_", "timeBuf", ".jsonl">>
\* StartSession: the start event, sessionName and filename put in as they are
StartEventJson(name) ==
    [t |-> 0, event |-> "record_start", session |-> name, map |-> mapFilter,
     file |-> FileNameText(name)]
\* StopSession: the stop event, _sessionName put in as it is
StopEventJson(name) ==
    [t |-> GetSessionTime, event |-> "record_stop", session |-> name,
     duration |-> GetSessionTime, events_captured |-> eventCount]

FormatCalls ==
    [kind : {"EscapeJson"}, input : Names]
    \cup [kind : {"FormatUnit"}, unit : Units \cup {NullUnit}, name : Names]
    \cup [kind : {"StartEvent", "StopEvent"}, name : CommandNames]
    \cup UNION {[kind : {"RecordJson"}, event : {k},
                 a : FirstArgs(k) \cap {NullUnit, 1, 2},
                 b : SecondArgs(k) \cap {Absent, NullUnit, 3},
                 name : Names] : k \in Kinds}

\* A session is running and thread 1 is about to make one of the calls.
FormatInit ==
    /\ enabled = TRUE
    /\ active = TRUE
    /\ sessionName = "boss1"
    /\ outputDir = "recordings"
    /\ maxEvents = 2
    /\ eventCount = 1
    /\ mapFilter = 0
    /\ instanceFilter = 0
    /\ radius = 0
    /\ recorderX = 0
    /\ recorderY = 0
    /\ recorderZ = 0
    /\ recorderMapId = 0
    /\ sessionStart = 0
    /\ outFile = [open |-> TRUE, path |-> FilterFile]
    /\ mutex = NoThread
    /\ cfgDefaultRadius = 0
    /\ files = [p \in {FilterFile} |->
                  [owner |-> 1,
                   lines |-> <<[t |-> 0, event |-> "record_start",
                                session |-> "boss1", map |-> 0,
                                file |-> FilterFile]>>]]
    /\ now = 0
    /\ pc = [t \in Threads |-> "idle"]
    /\ \E c \in FormatCalls : frame = [t \in Threads |-> IF t = 1 THEN c ELSE NoFrame]
    /\ result = NoResult
    /\ sid = 1
    /\ diag = 0
    /\ admitted = 0
    /\ reloaded = FALSE

\* EscapeJson(input) is called and returns
CallEscapeJson(t) ==
    /\ pc[t] = "idle"
    /\ frame[t].kind = "EscapeJson"
    /\ result' = [op |-> "EscapeJson", val |-> TRUE, why |-> "none",
                  input |-> frame[t].input, output |-> EscapeJson(frame[t].input)]
    /\ frame' = [frame EXCEPT ![t] = NoFrame]
    /\ UNCHANGED <<recorderVars, mutex, cfgDefaultRadius, files, now, pc,
                   sid, diag, admitted, reloaded>>

\* FormatUnit(unit), of a unit called name, is called and returns
CallFormatUnit(t) ==
    /\ pc[t] = "idle"
    /\ frame[t].kind = "FormatUnit"
    /\ result' = [op |-> "FormatUnit", val |-> TRUE, why |-> "none",
                  unit |-> frame[t].unit, name |-> frame[t].name,
                  output |-> FormatUnit(frame[t].unit, frame[t].name)]
    /\ frame' = [frame EXCEPT ![t] = NoFrame]
    /\ UNCHANGED <<recorderVars, mutex, cfgDefaultRadius, files, now, pc,
                   sid, diag, admitted, reloaded>>

\* A Record*(a, b) formats its line; both entities and the spell are
\* called name
CallRecordJson(t) ==
    /\ pc[t] = "idle"
    /\ frame[t].kind = "RecordJson"
    /\ result' = [op |-> "RecordJson", val |-> TRUE, why |-> "none",
                  kind |-> frame[t].event, a |-> frame[t].a, b |-> frame[t].b,
                  name |-> frame[t].name,
                  output |-> RecordJson(frame[t].event, frame[t].a, frame[t].b,
                                        frame[t].name, frame[t].name,
                                        frame[t].name)]
    /\ frame' = [frame EXCEPT ![t] = NoFrame]
    /\ UNCHANGED <<recorderVars, mutex, cfgDefaultRadius, files, now, pc,
                   sid, diag, admitted, reloaded>>

\* StartSession of a session called name formats its start event
CallStartEventJson(t) ==
    /\ pc[t] = "idle"
    /\ frame[t].kind = "StartEvent"
    /\ result' = [op |-> "StartEvent", val |-> TRUE, why |-> "none",
                  name |-> frame[t].name,
                  output |-> StartEventJson(frame[t].name)]
    /\ frame' = [frame EXCEPT ![t] = NoFrame]
    /\ UNCHANGED <<recorderVars, mutex, cfgDefaultRadius, files, now, pc,
                   sid, diag, admitted, reloaded>>

\* StopSession of a session called name formats its stop event
CallStopEventJson(t) ==
    /\ pc[t] = "idle"
    /\ frame[t].kind = "StopEvent"
    /\ result' = [op |-> "StopEvent", val |-> TRUE, why |-> "none",
                  name |-> frame[t].name,
                  output |-> StopEventJson(frame[t].name)]
    /\ frame' = [frame EXCEPT ![t] = NoFrame]
    /\ UNCHANGED <<recorderVars, mutex, cfgDefaultRadius, files, now, pc,
                   sid, diag, admitted, reloaded>>

FormatNext ==
    \/ \E t \in Threads : CallEscapeJson(t)
    \/ \E t \in Threads : CallStartEventJson(t)
    \/ \E t \in Threads : CallStopEventJson(t)
    \/ \E t \in Threads : CallFormatUnit(t)
    \/ \E t \in Threads : CallRecordJson(t)

FormatSpec == FormatInit /\ [][FormatNext]_vars

\* ---------------------------------------------- the .record chat commands
\* The handlers of cs_record.cpp test IsEnabled() and IsActive() without the
\* mutex, then call the recorder and reply according to the value returned.
\* frame[t] keeps where thread t is in a handler; the value StartSession or
\* StopSession returned is local to the handler, which replies before any
\* other thread is looked at.
CommandConfigs == [en : BOOLEAN, mx : {2}, dr : {0}]
MsgDisabled == "Event Recorder is disabled. Set EventRecorder.Enable = 1 in worldserver.conf."
MsgAlreadyActive == "A recording session is already active. Stop it first with .record stop"
MsgStartFailed == "Failed to start recording session."
MsgStarted == "Recording started: 'boss1'"
MsgNoActive == "No active recording session."
MsgStopFailed == "Failed to stop recording session."
MsgStopped == "Recording stopped."

Reply(op, val, why, msg) == [op |-> op, val |-> val, why |-> why, msg |-> msg]
\* no handler is between the return of the recorder and its reply
NoReplyPending == result.op \notin {"StartSession", "StopSession"}
CommandFrame(what) == [kind |-> what]

\* HandleRecordStartCommand up to its call of StartSession
CmdStartCheck(t) ==
    /\ NoReplyPending
    /\ pc[t] = "idle"
    /\ frame[t] = NoFrame
    /\ IF ~enabled
       THEN /\ result' = Reply(".record start", FALSE, "disabled", MsgDisabled)
            /\ UNCHANGED frame
       ELSE IF active
       THEN /\ result' = Reply(".record start", FALSE, "active", MsgAlreadyActive)
            /\ UNCHANGED frame
       ELSE /\ result' = NoResult
            /\ frame' = [frame EXCEPT ![t] = CommandFrame(".record start")]
    /\ UNCHANGED <<recorderVars, mutex, cfgDefaultRadius, files, now, pc, sid,
                   diag, admitted, reloaded>>

\* HandleRecordStartCommand: the call of StartSession
CmdStartCall(t, dirOk, openOk) ==
    /\ NoReplyPending
    /\ frame[t] = CommandFrame(".record start")
    /\ StartSession(t, "boss1", NullUnit, 0, 0, dirOk, openOk)

\* HandleRecordStartCommand: the reply after StartSession has returned
CmdStartReply(t) ==
    /\ result.op = "StartSession"
    /\ frame[t] = CommandFrame(".record start")
    /\ result' = IF result.val
                 THEN Reply(".record start", TRUE, result.why, MsgStarted)
                 ELSE Reply(".record start", FALSE, result.why, MsgStartFailed)
    /\ frame' = [frame EXCEPT ![t] = NoFrame]
    /\ UNCHANGED <<recorderVars, mutex, cfgDefaultRadius, files, now, pc, sid,
                   diag, admitted, reloaded>>

\* HandleRecordStopCommand up to its call of StopSession
CmdStopCheck(t) ==
    /\ NoReplyPending
    /\ pc[t] = "idle"
    /\ frame[t] = NoFrame
    /\ IF ~active
       THEN /\ result' = Reply(".record stop", FALSE, "inactive", MsgNoActive)
            /\ UNCHANGED frame
       ELSE /\ result' = NoResult
            /\ frame' = [frame EXCEPT ![t] = CommandFrame(".record stop")]
    /\ UNCHANGED <<recorderVars, mutex, cfgDefaultRadius, files, now, pc, sid,
                   diag, admitted, reloaded>>

\* HandleRecordStopCommand: the call of StopSession
CmdStopCall(t) ==
    /\ NoReplyPending
    /\ frame[t] = CommandFrame(".record stop")
    /\ StopSession(t)

\* HandleRecordStopCommand: the reply after StopSession has returned
CmdStopReply(t) ==
    /\ result.op = "StopSession"
    /\ frame[t] = CommandFrame(".record stop")
    /\ result' = IF result.val
                 THEN Reply(".record stop", TRUE, result.why, MsgStopped)
                 ELSE Reply(".record stop", FALSE, result.why, MsgStopFailed)
    /\ frame' = [frame EXCEPT ![t] = NoFrame]
    /\ UNCHANGED <<recorderVars, mutex, cfgDefaultRadius, files, now, pc, sid,
                   diag, admitted, reloaded>>

CommandNext ==
    \/ \E c \in CommandConfigs : NoReplyPending /\ LoadConfig(c.en, c.mx, c.dr)
    \/ NoReplyPending /\ Tick
    \/ \E t \in Threads : CmdStartCheck(t)
    \/ \E t \in Threads, dirOk \in BOOLEAN, openOk \in BOOLEAN : CmdStartCall(t, dirOk, openOk)
    \/ \E t \in Threads : CmdStartReply(t)
    \/ \E t \in Threads : CmdStopCheck(t)
    \/ \E t \in Threads : CmdStopCall(t)
    \/ \E t \in Threads : CmdStopReply(t)

CommandSpec == Init /\ [][CommandNext]_vars

\* ------------------------------------------- GetSessionInfo without the mutex
\* GetSessionInfo takes no lock: it reads _active, and then reads the fields
\* it formats, while StartSession, StopSession and Record* run on the other
\* thread. frame[t] keeps the call between its two reads.
SnapshotConfigs == [en : {TRUE}, mx : {2}, dr : {0}]
SnapshotCalls ==
    {[name |-> "boss1", player |-> NullUnit, map |-> 2, radius |-> 2],
     [name |-> "boss2", player |-> 1, map |-> 0, radius |-> 0]}

\* the text GetSessionInfo formats from the fields
SessionText ==
    [text |-> "Session", name |-> sessionName, map |-> mapFilter,
     events |-> eventCount, max |-> maxEvents, elapsed |-> GetSessionTime,
     radius |-> radius]

\* GetSessionInfo: if (!_active) return "No active recording session.";
InfoReadActive(t) ==
    /\ pc[t] = "idle"
    /\ frame[t] = NoFrame
    /\ IF ~active
       THEN /\ result' = [op |-> "GetSessionInfo", val |-> FALSE, why |-> "none",
                          info |-> [text |-> "No active recording session."]]
            /\ UNCHANGED frame
       ELSE /\ result' = NoResult
            /\ frame' = [frame EXCEPT ![t] = [kind |-> "GetSessionInfo"]]
    /\ UNCHANGED <<recorderVars, mutex, cfgDefaultRadius, files, now, pc, sid,
                   diag, admitted, reloaded>>

\* GetSessionInfo: the fields are read and formatted
InfoReadFields(t) ==
    /\ frame[t] = [kind |-> "GetSessionInfo"]
    /\ result' = [op |-> "GetSessionInfo", val |-> TRUE, why |-> "none",
                  info |-> SessionText]
    /\ frame' = [frame EXCEPT ![t] = NoFrame]
    /\ UNCHANGED <<recorderVars, mutex, cfgDefaultRadius, files, now, pc, sid,
                   diag, admitted, reloaded>>

SnapshotNext ==
    \/ \E c \in SnapshotConfigs : LoadConfig(c.en, c.mx, c.dr)
    \/ Tick
    \/ \E t \in Threads, c \in SnapshotCalls :
          frame[t] = NoFrame
          /\ StartSession(t, c.name, c.player, c.map, c.radius, TRUE, TRUE)
    \/ \E t \in Threads : frame[t] = NoFrame /\ StopSession(t)
    \/ \E t \in Threads : frame[t] = NoFrame /\ RecordFilter(t, "damage", 1, NullUnit, TRUE)
    \/ \E t \in Threads : RecordWrite(t)
    \/ \E t \in Threads : InfoReadActive(t)
    \/ \E t \in Threads : InfoReadFields(t)

SnapshotSpec == Init /\ [][SnapshotNext]_vars

\* ------------------------------------------------- calls that wait and return
\* Every call with its wait for the mutex: a thread that has begun a call
\* keeps it in frame[t] until the call has returned.  A hook of
\* EventRecorderHooks.cpp tests IsActive() without the mutex and then calls
\* Record*, which waits at its lock_guard; the .record commands and
\* GetSessionInfo are the steps defined above.
HookKinds == {"damage", "aura_apply"}
HookFirst == {NullUnit, 1}
HookFrame(kind, a, b) == [kind |-> "hook", event |-> kind, a |-> a, b |-> b]

\* OnDamage, OnAuraApply, ...: if (!sEventRecorder->IsActive()) return;
HookCheck(t, kind, a, b) ==
    /\ NoReplyPending
    /\ pc[t] = "idle"
    /\ frame[t] = NoFrame
    /\ active
    /\ frame' = [frame EXCEPT ![t] = HookFrame(kind, a, b)]
    /\ result' = NoResult
    /\ UNCHANGED <<recorderVars, mutex, cfgDefaultRadius, files, now, pc, sid,
                   diag, admitted, reloaded>>

\* the Record* call of the hook that keeps the mutex on its early return
HookRecordKeepsMutex(t, auxOk) ==
    /\ NoReplyPending
    /\ pc[t] = "idle"
    /\ frame[t] # NoFrame
    /\ frame[t].kind = "hook"
    /\ MutexFree
    /\ LET f == frame[t]
       IN  IF Admits(f.event, f.a, f.b, auxOk)
           THEN RecordFilter(t, f.event, f.a, f.b, auxOk)
           ELSE /\ frame' = [frame EXCEPT ![t] = NoFrame]
                /\ mutex' = t
                /\ result' = NoResult
                /\ UNCHANGED <<recorderVars, cfgDefaultRadius, files, now, pc,
                               sid, diag, admitted, reloaded>>

\* the Record* call of the hook, once the mutex is free: it is admitted and
\* goes on to write, or returns at the filters, releasing the mutex
HookRecord(t, auxOk) ==
    /\ NoReplyPending
    /\ pc[t] = "idle"
    /\ frame[t] # NoFrame
    /\ frame[t].kind = "hook"
    /\ MutexFree
    /\ LET f == frame[t]
       IN  IF Admits(f.event, f.a, f.b, auxOk)
           THEN RecordFilter(t, f.event, f.a, f.b, auxOk)
           ELSE /\ frame' = [frame EXCEPT ![t] = NoFrame]
                /\ result' = NoResult
                /\ UNCHANGED <<recorderVars, mutex, cfgDefaultRadius, files, now,
                               pc, sid, diag, admitted, reloaded>>

\* The value StartSession or StopSession returns is not tagged with its
\* caller, so one thread at a time is in each of the two commands.
OnlyIn(t, what) == \A u \in Threads \ {t} : frame[u] # CommandFrame(what)

LiveNext ==
    \/ \E c \in CommandConfigs : NoReplyPending /\ LoadConfig(c.en, c.mx, c.dr)
    \/ \E t \in Threads : OnlyIn(t, ".record start") /\ CmdStartCheck(t)
    \/ \E t \in Threads, dirOk \in BOOLEAN, openOk \in BOOLEAN : CmdStartCall(t, dirOk, openOk)
    \/ \E t \in Threads : CmdStartReply(t)
    \/ \E t \in Threads : OnlyIn(t, ".record stop") /\ CmdStopCheck(t)
    \/ \E t \in Threads : CmdStopCall(t)
    \/ \E t \in Threads : CmdStopReply(t)
    \/ \E t \in Threads : NoReplyPending /\ InfoReadActive(t)
    \/ \E t \in Threads : NoReplyPending /\ InfoReadFields(t)
    \/ \E t \in Threads, kind \in HookKinds, a \in HookFirst :
          HookCheck(t, kind, a, IF kind \in TwoEntityKinds THEN NullUnit ELSE Absent)
    \/ \E t \in Threads, auxOk \in BOOLEAN : HookRecord(t, auxOk)
    \/ \E t \in Threads : NoReplyPending /\ RecordWrite(t)

\* the next step of the call thread t is in
Continue(t) ==
    \/ \E dirOk \in BOOLEAN, openOk \in BOOLEAN : CmdStartCall(t, dirOk, openOk)
    \/ CmdStartReply(t)
    \/ CmdStopCall(t)
    \/ CmdStopReply(t)
    \/ NoReplyPending /\ InfoReadFields(t)
    \/ \E auxOk \in BOOLEAN : HookRecord(t, auxOk)
    \/ NoReplyPending /\ RecordWrite(t)

\* Fair scheduling: a thread inside a call that can go on again and again
\* does go on; in particular a thread waiting for the mutex gets it.
LiveFairness == \A t \in Threads : SF_vars(Continue(t))

LiveSpec == Init /\ [][LiveNext]_vars /\ LiveFairness

\* ------------------------------------------- events of two instances of a map
\* A session started by a player (map 1, instance 7) or from the console,
\* and the hooks delivering the events of every unit, among them a creature
\* in another instance of the player's map.
InstanceCalls ==
    {[name |-> "boss1", player |-> 1, map |-> 0, radius |-> 0],
     [name |-> "boss1", player |-> NullUnit, map |-> 0, radius |-> 0]}
\* the player, and the creature in the other instance of the map
InstanceUnits == {1, 2}

InstanceNext ==
    \/ \E c \in SnapshotConfigs : LoadConfig(c.en, c.mx, c.dr)
    \/ \E t \in Threads, c \in InstanceCalls :
          frame[t] = NoFrame
          /\ StartSession(t, c.name, c.player, c.map, c.radius, TRUE, TRUE)
    \/ \E t \in Threads : frame[t] = NoFrame /\ StopSession(t)
    \/ \E t \in Threads, a \in InstanceUnits : HookCheck(t, "damage", a, NullUnit)
    \/ \E t \in Threads : HookRecord(t, TRUE)
    \/ \E t \in Threads : RecordWrite(t)

InstanceSpec == Init /\ [][InstanceNext]_vars

\* ------------------------------------------- IsActiveForMap without the mutex
\* IsActiveForMap takes no lock: it reads _active, and then _mapFilter and
\* _instanceFilter, while StartSession and StopSession run on the other
\* thread.  frame[t] keeps the call between its reads, with its arguments;
\* matched and sid note whether the scope matched, and which session there
\* was, when the call began.
ScopeArgMaps == {1, 2}
ScopeArgInstances == {7, 9}

\* IsActiveForMap: if (!_active) return false;
ScopeReadActive(t, mapId, instanceId) ==
    /\ pc[t] = "idle"
    /\ frame[t] = NoFrame
    /\ IF ~active
       THEN /\ result' = [op |-> "IsActiveForMap", val |-> FALSE, why |-> "none",
                          mapId |-> mapId, instanceId |-> instanceId,
                          matched |-> FALSE, sid |-> sid]
            /\ UNCHANGED frame
       ELSE /\ result' = NoResult
            /\ frame' = [frame EXCEPT ![t] =
                           [kind |-> "IsActiveForMap", mapId |-> mapId,
                            instanceId |-> instanceId,
                            matched |-> IsActiveForMap(mapId, instanceId),
                            sid |-> sid]]
    /\ UNCHANGED <<recorderVars, mutex, cfgDefaultRadius, files, now, pc, sid,
                   diag, admitted, reloaded>>

\* IsActiveForMap: the tests of _mapFilter and of _instanceFilter
ScopeReadFilters(t) ==
    /\ frame[t] # NoFrame
    /\ frame[t].kind = "IsActiveForMap"
    /\ LET f == frame[t]
       IN  result' = [op |-> "IsActiveForMap",
                      val |-> /\ ~(mapFilter # 0 /\ mapFilter # f.mapId)
                              /\ ~(instanceFilter # 0 /\ instanceFilter # f.instanceId),
                      why |-> "none", mapId |-> f.mapId,
                      instanceId |-> f.instanceId, matched |-> f.matched,
                      sid |-> f.sid]
    /\ frame' = [frame EXCEPT ![t] = NoFrame]
    /\ UNCHANGED <<recorderVars, mutex, cfgDefaultRadius, files, now, pc, sid,
                   diag, admitted, reloaded>>

ScopeNext ==
    \/ \E c \in SnapshotConfigs : LoadConfig(c.en, c.mx, c.dr)
    \/ \E t \in Threads, c \in SnapshotCalls :
          frame[t] = NoFrame
          /\ StartSession(t, c.name, c.player, c.map, c.radius, TRUE, TRUE)
    \/ \E t \in Threads : frame[t] = NoFrame /\ StopSession(t)
    \/ \E t \in Threads, mapId \in ScopeArgMaps, instanceId \in ScopeArgInstances :
          ScopeReadActive(t, mapId, instanceId)
    \/ \E t \in Threads : ScopeReadFilters(t)

ScopeSpec == Init /\ [][ScopeNext]_vars

\* ------------------------------------------------- a session near UINT32_MAX
\* A session whose cap is the largest value of the counter, or one below,
\* has written all but one of the lines the cap allows; of its file the
\* start line alone is kept here.  At most MaxWrapLines lines are written
\* from there on.
MaxWrapLines == 3
WrapCaps == {UIntMax - 1, UIntMax}

\* the lines of the session's file that WrapInit leaves out: all but the
\* start line of the maxEvents - 1 lines written so far
WrapElided == maxEvents - 2

WrapInit ==
    /\ enabled = TRUE
    /\ active = TRUE
    /\ sessionName = "boss1"
    /\ outputDir = "recordings"
    /\ maxEvents \in WrapCaps
    /\ eventCount = maxEvents - 1
    /\ mapFilter = 0
    /\ instanceFilter = 0
    /\ radius = 0
    /\ recorderX = 0
    /\ recorderY = 0
    /\ recorderZ = 0
    /\ recorderMapId = 0
    /\ sessionStart = 0
    /\ outFile = [open |-> TRUE, path |-> FilterFile]
    /\ mutex = NoThread
    /\ cfgDefaultRadius = 0
    /\ files = [p \in {FilterFile} |->
                  [owner |-> 1,
                   lines |-> <<[t |-> 0, event |-> "record_start",
                                session |-> "boss1", map |-> 0,
                                file |-> FilterFile]>>]]
    /\ now = 0
    /\ pc = [t \in Threads |-> "idle"]
    /\ frame = [t \in Threads |-> NoFrame]
    /\ result = NoResult
    /\ sid = 1
    /\ diag = 0
    /\ admitted = 0
    /\ reloaded = FALSE

WrapNext ==
    \/ Tick
    \/ \E t \in Threads, kind \in {"damage", "heal"} :
          /\ Len(files[FilterFile].lines) <= MaxWrapLines
          /\ RecordFilter(t, kind, 1, NullUnit, TRUE)
    \/ \E t \in Threads : RecordWrite(t)
    \/ \E t \in Threads : StopSession(t)

WrapSpec == WrapInit /\ [][WrapNext]_vars

\* ---------------------------------------------------------------- claims
IsData(line) == line.event \notin {"record_start", "record_stop"}
Indices(p, event) == {i \in 1..Len(files[p].lines) : files[p].lines[i].event = event}
DataLines(p) == Cardinality({i \in 1..Len(files[p].lines) : IsData(files[p].lines[i])})
\* p is the file of a session that has been stopped
Stopped(p) == ~(active /\ files[p].owner = sid)
sessionFields == <<sessionName, eventCount, mapFilter, instanceFilter, radius,
                   recorderX, recorderY, recorderZ, recorderMapId>>
\* the step is part of a Record* call: one that takes or releases the mutex,
\* or one that returns at the filters
RecordStep ==
    \/ /\ pc' # pc
       /\ \/ \E t \in Threads : RecordWrite(t)
          \/ \E t \in Threads, kind \in Kinds, auxOk \in BOOLEAN :
                \E a \in FirstArgs(kind), b \in SecondArgs(kind) :
                   RecordFilter(t, kind, a, b, auxOk)
    \/ /\ pc' = pc
       /\ result' = NoResult
       /\ now' = now
       /\ \E t \in Threads, kind \in Kinds, auxOk \in BOOLEAN :
             \E a \in FirstArgs(kind), b \in SecondArgs(kind) :
                RecordFilter(t, kind, a, b, auxOk)

\* C1: a StartSession call made while a session is active returns false and
\* leaves the file system, the open handle, the session name, eventCount, the
\* filters, the radius and the anchor as they were.
C1_StartWhileActiveFails ==
    [][(active /\ result'.op = "StartSession")
         => /\ result'.val = FALSE
            /\ UNCHANGED <<files, outFile, active, sessionFields>>]_vars
\* a StartSession call has just been refused because a session is active
C1_Witness ==
    /\ active
    /\ result = [op |-> "StartSession", val |-> FALSE, why |-> "active"]
    /\ DataLines(outFile.path) > 0

\* C2: a StopSession call made while no session is active returns false and
\* changes nothing: no line written, no file opened or closed, eventCount,
\* filters, radius and anchor keep their values.
C2_StopWhileInactiveFails ==
    [][(~active /\ result'.op = "StopSession")
         => /\ result'.val = FALSE
            /\ UNCHANGED <<files, outFile, active, diag, sessionFields>>]_vars
\* a StopSession call has just been refused after an earlier session ended
C2_Witness ==
    /\ ~active
    /\ sid > 0
    /\ result = [op |-> "StopSession", val |-> FALSE, why |-> "inactive"]

\* C3: no step of a Record* call made while no session is active creates or
\* writes a file, changes eventCount or emits the cap diagnostic.
C3_RecordWhileInactiveNoEffect ==
    [][~active => (UNCHANGED <<files, outFile, eventCount, diag>> \/ ~RecordStep)]_vars
\* after a session has been stopped, with the counter below the cap, a thread
\* is in a Record* call, past the filters and about to call WriteEvent
C3_Witness ==
    /\ ~active
    /\ sid > 0
    /\ eventCount < maxEvents
    /\ \E t \in Threads : pc[t] = "record"

\* C4: in a session whose cap was not reloaded, after exactly maxEvents
\* admitted Record* calls the file holds exactly maxEvents data lines and one
\* cap diagnostic has been emitted, and one more admitted call changes neither.
C4_CapAfterMaxEventsAdmitted ==
    (active /\ ~reloaded /\ admitted \in {maxEvents, maxEvents + 1})
        => (DataLines(outFile.path) = maxEvents /\ diag = 1)

\* C5: the events_captured value of a record_stop line equals the number of
\* data lines of its file.
C5_EventsCapturedCountsData ==
    \A p \in DOMAIN files : \A i \in Indices(p, "record_stop") :
        files[p].lines[i].events_captured = DataLines(p)

\* C6: the file of every stopped session holds exactly one record_stop line,
\* and it is its last line.
C6_StopLineLast ==
    \A p \in DOMAIN files :
        Stopped(p) => /\ Len(files[p].lines) > 0
                      /\ Indices(p, "record_stop") = {Len(files[p].lines)}

\* C7: the file of every started session holds exactly one record_start line,
\* and it is its first line.
C7_StartLineFirst ==
    \A p \in DOMAIN files : Indices(p, "record_start") = {1}

\* C8 as stated: no step changes the lines of the file of a stopped session.
C8_NoWriteAfterStop ==
    [][\A p \in DOMAIN files :
          Stopped(p) => (p \in DOMAIN files' /\ files'[p].lines = files[p].lines)]_vars
\* C8, amended: the file of a stopped session is changed by no step other
\* than a successful StartSession with the same name in the same second,
\* which truncates it and makes it the file of the new session.
C8_NoWriteAfterStopButRestart ==
    [][\A p \in DOMAIN files :
          Stopped(p) =>
             /\ p \in DOMAIN files'
             /\ \/ files'[p].lines = files[p].lines /\ files'[p].owner = files[p].owner
                \/ /\ result' = [op |-> "StartSession", val |-> TRUE, why |-> "ok"]
                   /\ p = [name |-> sessionName', sec |-> NowSec]
                   /\ outFile' = [open |-> TRUE, path |-> p]
                   /\ files'[p].owner = sid'
                   /\ \A i \in 1..Len(files'[p].lines) :
                         files'[p].lines[i].event = "record_start"]_vars
\* a data line has been written in a later session, to another file than the
\* file of a stopped session, which still ends with its record_stop line
C8_Witness ==
    /\ active
    /\ DataLines(outFile.path) > 0
    /\ \E p \in DOMAIN files :
          /\ p # outFile.path
          /\ Stopped(p)
          /\ Indices(p, "record_stop") # {}

\* C9: every data line was admitted by the filters of, and timestamped and
\* counted in, the session that owns the file the line is in.
C9_LinesBelongToOneSession ==
    \A p \in DOMAIN files : \A i \in 1..Len(files[p].lines) :
        LET line == files[p].lines[i]
        IN  IsData(line) => /\ line.fsid = files[p].owner
                            /\ line.wsid = files[p].owner
\* the second session has written a data line while the other thread was
\* waiting for the mutex or had just stopped and restarted
C9_Witness ==
    /\ sid = 2
    /\ \E p \in DOMAIN files :
          /\ files[p].owner = 2
          /\ DataLines(p) > 0

\* C10: while the enabled flag is false, StartSession and StopSession return
\* false and no step of StartSession, StopSession or Record* changes a file,
\* the activity, eventCount or the filters.
C10_DisabledIsNoOp ==
    [][(~enabled /\ (result'.op # "none" \/ RecordStep))
         => /\ result'.val = FALSE
            /\ UNCHANGED <<files, active, sessionFields>>]_vars

\* C11: a StartSession call that fails because the output directory cannot be
\* created or the output file cannot be opened returns false and leaves the
\* recorder inactive, the handle closed, and the session name, eventCount,
\* the filters, the radius and the anchor as they were before the call.
C11_IoFailureLeavesNoSession ==
    [][(result'.op = "StartSession" /\ result'.why \in {"dir", "open"})
         => /\ result'.val = FALSE
            /\ ~active'
            /\ ~outFile'.open
            /\ UNCHANGED <<files, outFile, sessionFields>>]_vars
\* after an earlier session has written lines and was stopped, a StartSession
\* call has just failed at the open of its output file
C11_Witness ==
    /\ result = [op |-> "StartSession", val |-> FALSE, why |-> "open"]
    /\ sid > 0
    /\ eventCount > 0
    /\ sessionName # ""

\* the unit PassesFilters was last called with
FilteredUnit == result.unit
\* the squared distance of a unit to the anchor
DistSq(u) == (UnitX(u) - recorderX) * (UnitX(u) - recorderX)
             + (UnitY(u) - recorderY) * (UnitY(u) - recorderY)
             + (UnitZ(u) - recorderZ) * (UnitZ(u) - recorderZ)
\* the decision the filters are specified to take
Reference(u) ==
    /\ u # NullUnit
    /\ mapFilter = 0 \/ UnitMap(u) = mapFilter
    /\ (radius > 0 /\ UnitMap(u) = recorderMapId) => DistSq(u) <= radius * radius

\* C12: PassesFilters(entity) returns the reference decision: a null entity
\* is rejected, an entity off a nonzero map filter is rejected, and otherwise
\* an entity on the anchor's map is rejected by a positive radius exactly when
\* its squared distance to the anchor exceeds the radius squared; an entity
\* on another map than the anchor's is not tested against the radius.
C12_PassesFiltersIsReference ==
    result.op = "PassesFilters" => result.val = Reference(FilteredUnit)
\* an entity on the anchor's map, at a distance of exactly the radius, has
\* been admitted
C12_Witness ==
    /\ result.op = "PassesFilters"
    /\ result.val = TRUE
    /\ FilteredUnit # NullUnit
    /\ radius > 0
    /\ UnitMap(FilteredUnit) = recorderMapId
    /\ DistSq(FilteredUnit) = radius * radius

\* the map filter a start call is specified to resolve to
ResolvedMap(c) ==
    IF c.map # 0 THEN c.map
    ELSE IF c.player # NullUnit THEN UnitMap(c.player)
    ELSE 0

\* C13: after a successful StartSession(name, origin, mapOverride,
\* radiusOverride) the map filter is mapOverride if that is nonzero, else the
\* origin's map if an origin was supplied, else 0.
C13_MapFilterResolved ==
    [][\A c \in SessionCalls :
          ((\E t \in Threads : StartSession(t, c.name, c.player, c.map, c.radius, TRUE, TRUE))
           /\ result'.val)
          => mapFilter' = ResolvedMap(c)]_vars
\* a session started with an origin and a map override other than the
\* origin's map has the override as its map filter
C13_Witness ==
    /\ result = [op |-> "StartSession", val |-> TRUE, why |-> "ok"]
    /\ recorderMapId = 1
    /\ mapFilter = 2

\* C14 as stated: after a successful StartSession whose radius override is
\* nonzero, the radius is that override.
C14_NonzeroRadiusOverrideWins ==
    [][\A c \in SessionCalls :
          ((\E t \in Threads : StartSession(t, c.name, c.player, c.map, c.radius, TRUE, TRUE))
           /\ result'.val /\ c.radius # 0)
          => radius' = c.radius]_vars
\* C14, amended: after a successful StartSession whose radius override is
\* positive, the radius is that override, whatever the configured
\* DefaultRadius and whatever radius was left by a configuration load.
C14_PositiveRadiusOverrideWins ==
    [][\A c \in SessionCalls :
          ((\E t \in Threads : StartSession(t, c.name, c.player, c.map, c.radius, TRUE, TRUE))
           /\ result'.val /\ c.radius > 0)
          => radius' = c.radius]_vars
\* a session has been started with a radius other than the DefaultRadius
\* that the configuration gives
C14_Witness ==
    /\ result = [op |-> "StartSession", val |-> TRUE, why |-> "ok"]
    /\ cfgDefaultRadius > 0
    /\ radius > 0
    /\ radius # cfgDefaultRadius

\* C15: IsActiveForMap(mapId, instanceId) returns true if and only if a
\* session is active, the map filter is 0 or mapId, and the instance filter
\* is 0 or instanceId.
C15_IsActiveForMapIff ==
    result.op = "IsActiveForMap"
        => (result.val <=> /\ active
                           /\ mapFilter = 0 \/ mapFilter = result.mapId
                           /\ instanceFilter = 0 \/ instanceFilter = result.instanceId)
\* IsActiveForMap has returned false for the map of an active session, in
\* another instance than the session's
C15_Witness ==
    /\ result.op = "IsActiveForMap"
    /\ ~result.val
    /\ active
    /\ mapFilter = result.mapId
    /\ instanceFilter # 0
    /\ instanceFilter # result.instanceId

\* C16: in the state a successful StartSession call returns in, IsActive()
\* is true and GetSessionInfo() gives the session's name, its resolved map
\* filter and its radius (the override when that is positive); a
\* GetSessionInfo call made next returns just that and not the
\* no-active-session message.
C16_InfoAfterStart ==
    [][/\ \A c \in SessionCalls :
            ((\E t \in Threads : StartSession(t, c.name, c.player, c.map, c.radius, TRUE, TRUE))
             /\ result'.val)
            => /\ active'
               /\ GetSessionInfo'.text = "Session"
               /\ GetSessionInfo'.name = c.name
               /\ GetSessionInfo'.map = ResolvedMap(c)
               /\ GetSessionInfo'.radius = radius'
               /\ c.radius > 0 => GetSessionInfo'.radius = c.radius
       /\ (result.op = "StartSession" /\ result.val /\ result'.op = "GetSessionInfo")
            => /\ result'.val
               /\ result'.info.text = "Session"
               /\ result'.info.name = sessionName
               /\ result'.info.map = mapFilter
               /\ result'.info.radius = radius]_vars
\* GetSessionInfo has reported a session with an origin-resolved map filter
\* and an overriding radius, under a configuration with a DefaultRadius
C16_Witness ==
    /\ result.op = "GetSessionInfo"
    /\ result.val
    /\ result.info.name = "boss1"
    /\ result.info.map = 1
    /\ result.info.radius = 2
    /\ cfgDefaultRadius = 3

\* C17: in the state a successful StopSession call returns in, no session is
\* active, the output handle is closed, and the map filter, the instance
\* filter, the radius and the anchor are all 0.
C17_StopResetsFilters ==
    (result.op = "StopSession" /\ result.val)
        => /\ ~active
           /\ ~outFile.open
           /\ mapFilter = 0
           /\ instanceFilter = 0
           /\ radius = 0
           /\ recorderX = 0
           /\ recorderY = 0
           /\ recorderZ = 0
           /\ recorderMapId = 0
\* a session that had an origin and a radius has just been stopped
C17_Witness ==
    /\ result = [op |-> "StopSession", val |-> TRUE, why |-> "ok"]
    /\ \E p \in DOMAIN files :
          /\ Indices(p, "record_start") # {}
          /\ files[p].lines[1].map = 1
          /\ Indices(p, "record_stop") # {}

\* C18: from a state in which the session is active and eventCount has
\* reached maxEvents, every step other than a StopSession call leaves the
\* session active and the output handle open, and no step of a Record* call
\* changes a file.
C18_CapDoesNotEndSession ==
    [][(active /\ outFile.open /\ eventCount >= maxEvents)
         => /\ result'.op = "StopSession" \/ (active' /\ outFile'.open)
            /\ files' = files \/ ~RecordStep]_vars
\* a Record* call admitted past the cap has returned: the cap diagnostic has
\* been logged and the session is still active with its file open
C18_Witness ==
    /\ active
    /\ outFile.open
    /\ maxEvents > 0
    /\ eventCount > maxEvents
    /\ diag = 1
    /\ admitted > DataLines(outFile.path)
    /\ \A t \in Threads : pc[t] = "idle"

\* the entity is one, and the filters are specified to let it pass
Passes(u) == u \in Units /\ Reference(u)

\* C19: RecordDamage, RecordHeal and RecordUnitDeath admit the event if and
\* only if at least one of their two entities passes the session filter, and
\* an admitted event below the cap is written as one line.
C19_EitherEntityAdmits ==
    /\ [](\A t \in Threads, kind \in EitherKinds :
             \A a \in FirstArgs(kind), b \in SecondArgs(kind) :
                (pc[t] = "idle" /\ MutexFree)
                   => ((ENABLED (RecordFilter(t, kind, a, b, TRUE) /\ pc'[t] = "record"))
                         <=> (Passes(a) \/ Passes(b))))
    /\ [][\A t \in Threads :
             (/\ pc[t] = "record"
              /\ pc'[t] = "idle"
              /\ frame[t].kind \in EitherKinds
              /\ outFile.open
              /\ eventCount < maxEvents)
             => LET old == files[outFile.path].lines
                    new == files'[outFile.path].lines
                IN  /\ Len(new) = Len(old) + 1
                    /\ SubSeq(new, 1, Len(old)) = old
                    /\ new[Len(new)].event = frame[t].kind
                    /\ new[Len(new)].first = frame[t].a
                    /\ new[Len(new)].second = frame[t].b
                    /\ eventCount' = eventCount + 1]_vars
\* a line of a two-sided kind has been written whose first entity does not
\* pass the filters and whose second entity does
C19_Witness ==
    \E i \in 1..Len(files[outFile.path].lines) :
        LET line == files[outFile.path].lines[i]
        IN  /\ line.event \in EitherKinds
            /\ line.first \in Units
            /\ ~Passes(line.first)
            /\ Passes(line.second)

\* C20: a Record* call of any kind gets past the filters only if one of its
\* entities passes the session filter; a call that does not (the thread is
\* back at once, the mutex free again) leaves the files, the handle,
\* eventCount and the cap diagnostics as they were.
C20_NoPassNoEffect ==
    [][\A t \in Threads :
          (pc[t] = "idle" /\ MutexFree)
             => /\ pc'[t] = "record"
                   => /\ \E auxOk \in BOOLEAN :
                            RecordFilter(t, frame'[t].kind, frame'[t].a,
                                         frame'[t].b, auxOk)
                      /\ Passes(frame'[t].a) \/ Passes(frame'[t].b)
                /\ (\A u \in Threads : pc'[u] = "idle")
                   => UNCHANGED <<files, outFile, eventCount, diag>>]_vars
\* one Record* call has been admitted and written while another entity is
\* kept out by the filters, so that a call with it alone would be dropped
C20_Witness ==
    /\ active
    /\ MutexFree
    /\ DataLines(outFile.path) > 0
    /\ \E a \in Units : ~Passes(a)

JsonEscapes == {"quote", "backslash", "n", "r", "t", "b", "f", "slash", "u"}
\* JSON: the characters that may not stand unescaped in a string
JsonMustEscape == {"quote", "backslash", "nl", "cr", "tab", "ctl"}
\* the sequence of characters is the body of a JSON string
RECURSIVE ValidJsonBody(_)
ValidJsonBody(body) ==
    IF body = <<>> THEN TRUE
    ELSE IF Head(body) = "backslash"
    THEN /\ Len(body) >= 2
         /\ body[2] \in JsonEscapes
         /\ ValidJsonBody(SubSeq(body, 3, Len(body)))
    ELSE /\ Head(body) \notin JsonMustEscape
         /\ ValidJsonBody(Tail(body))
\* the text a JSON parser reads from a string body
RECURSIVE JsonUnescape(_)
JsonUnescape(body) ==
    IF body = <<>> THEN <<>>
    ELSE IF Head(body) = "backslash"
    THEN IF Len(body) < 2 THEN <<"error">>
         ELSE <<CASE body[2] = "quote" -> "quote"
                  [] body[2] = "backslash" -> "backslash"
                  [] body[2] = "n" -> "nl"
                  [] body[2] = "r" -> "cr"
                  [] body[2] = "t" -> "tab"
                  [] OTHER -> "error">>
              \o JsonUnescape(SubSeq(body, 3, Len(body)))
    ELSE <<Head(body)>> \o JsonUnescape(Tail(body))

\* C22: EscapeJson of any text is the body of a valid JSON string (every
\* quote, backslash and control character escaped) that reads back as the
\* text (every other character passed through).
C22_EscapeJsonValid ==
    result.op = "EscapeJson"
        => /\ ValidJsonBody(result.output)
           /\ JsonUnescape(result.output) = result.input

\* names built from ordinary characters, quote, backslash and newline
RoundTripNames == {name \in Names : \A i \in 1..Len(name) :
                      name[i] \in {"a", "n", "quote", "backslash", "nl"}}
\* the entity descriptors of a formatted line
Descriptors(line) ==
    {line[f] : f \in DOMAIN line \cap {"source", "target", "killer"}}

\* C23: for every entity name built from ordinary characters, quote,
\* backslash and newline, the name field of the descriptor FormatUnit
\* produces is a valid JSON string body that reads back as the name, also
\* inside the line a Record* formats; and the event field of that line names
\* the Record* kind.
C23_NameRoundTrip ==
    /\ (result.op = "FormatUnit" /\ result.unit # NullUnit
        /\ result.name \in RoundTripNames)
          => /\ ValidJsonBody(result.output.name)
             /\ JsonUnescape(result.output.name) = result.name
    /\ result.op = "RecordJson"
          => /\ result.output.event = result.kind
             /\ result.name \in RoundTripNames
                   => \A d \in Descriptors(result.output) :
                         d.json = "object" => JsonUnescape(d.name) = result.name
\* FormatUnit has formatted a creature whose name holds a backslash followed
\* by the letter n, and a newline
C23_Witness ==
    /\ result.op = "FormatUnit"
    /\ result.unit \in Creatures
    /\ result.name = <<"backslash", "n", "nl">>
    /\ result.output.name = <<"backslash", "backslash", "n", "backslash", "n">>

\* the call Record*(a, b) of thread t can get past the filters
CanAdmit(t, kind, a, b) ==
    ENABLED (RecordFilter(t, kind, a, b, TRUE) /\ pc'[t] = "record")
\* the descriptors of the first and of the second entity of a two-entity line
FirstDescriptor(json) == json.source
SecondDescriptor(json) == IF "killer" \in DOMAIN json THEN json.killer ELSE json.target
\* the descriptor is the full descriptor of the entity, or the null marker
Describes(d, unit) ==
    IF unit = NullUnit THEN d = [json |-> "null"]
    ELSE /\ d.json = "object"
         /\ d.type = UnitType(unit)
         /\ d.guid = unit
         /\ JsonUnescape(d.name) = UnitName(unit)
\* the write of a two-entity Record* with a null entity, below the cap,
\* appends exactly one line, holding the null marker for the null side and
\* the descriptor of the other
NullSideWritten ==
    \A t \in Threads :
       (/\ pc[t] = "record"
        /\ pc'[t] = "idle"
        /\ frame[t].kind \in TwoEntityKinds
        /\ NullUnit \in {frame[t].a, frame[t].b}
        /\ outFile.open
        /\ eventCount < maxEvents)
       => LET old == files[outFile.path].lines
              new == files'[outFile.path].lines
          IN  /\ Len(new) = Len(old) + 1
              /\ SubSeq(new, 1, Len(old)) = old
              /\ Describes(FirstDescriptor(new[Len(new)].json), frame[t].a)
              /\ Describes(SecondDescriptor(new[Len(new)].json), frame[t].b)

\* C24 as stated: RecordEnterCombat, RecordUnitDeath, RecordDamage and
\* RecordHeal called with one null entity and one entity that passes the
\* filter write exactly one line, with the null marker on the null side and
\* the descriptor on the other; called with both entities null they write
\* nothing.
C24_NullEntityAnySide ==
    /\ [](\A t \in Threads, kind \in TwoEntityKinds, u \in Units :
             (pc[t] = "idle" /\ MutexFree /\ Passes(u))
                => /\ CanAdmit(t, kind, u, NullUnit)
                   /\ CanAdmit(t, kind, NullUnit, u)
                   /\ ~CanAdmit(t, kind, NullUnit, NullUnit))
    /\ [][NullSideWritten]_vars
\* C24, amended: RecordUnitDeath, RecordDamage and RecordHeal called with
\* one null entity and one entity that passes the filter, and
\* RecordEnterCombat called with a source that passes and a null target,
\* write exactly one line, with the null marker on the null side and the
\* descriptor on the other; RecordEnterCombat called with a null source
\* writes nothing, as does every one of the four called with both entities
\* null.
C24_NullEntityAdmittingSide ==
    /\ [](\A t \in Threads, kind \in TwoEntityKinds, u \in Units :
             (pc[t] = "idle" /\ MutexFree /\ Passes(u))
                => /\ CanAdmit(t, kind, u, NullUnit)
                   /\ CanAdmit(t, kind, NullUnit, u) <=> kind # "enter_combat"
                   /\ ~CanAdmit(t, kind, NullUnit, NullUnit))
    /\ [][NullSideWritten]_vars
\* a line has been written for a death, damage or heal whose first entity
\* was null, and one for an enter-combat whose target was null
C24_Witness ==
    \E i \in 1..Len(files[outFile.path].lines) :
        LET line == files[outFile.path].lines[i]
        IN  /\ line.event \in TwoEntityKinds
            /\ \/ /\ line.event # "enter_combat"
                  /\ FirstDescriptor(line.json) = [json |-> "null"]
                  /\ SecondDescriptor(line.json).json = "object"
               \/ /\ line.event = "enter_combat"
                  /\ FirstDescriptor(line.json).json = "object"
                  /\ SecondDescriptor(line.json) = [json |-> "null"]

\* the cause a reply tells the operator: each message stands for the one
\* cause no other message names
MessageCause(msg) ==
    CASE msg = MsgDisabled -> "disabled"
      [] msg = MsgAlreadyActive -> "active"
      [] msg = MsgNoActive -> "inactive"
      [] msg = MsgStopFailed -> "inactive"
      [] msg = MsgStartFailed -> "output"
\* the cause that made the request fail
CauseClass(why) == IF why \in {"dir", "open"} THEN "output" ELSE why

\* C25: the reply to every failed .record start or .record stop names the
\* cause that applied (disabled, already active, no active session, failed
\* to open the output), so that no message is given for two causes, under
\* every interleaving of the commands.
C25_FailureRepliesNameCause ==
    (result.op \in {".record start", ".record stop"} /\ ~result.val)
        => MessageCause(result.msg) = CauseClass(result.why)

\* C26: what GetSessionInfo returns while StartSession, StopSession and
\* Record* run beside it is the fixed message or the name, map filter, event
\* count and radius of one state of one session: it is what the call gives
\* on the state its fields were read from, never a session's name with
\* filters its stop has already reset.
C26_SnapshotOfOneState ==
    result.op = "GetSessionInfo" => result.info = GetSessionInfo

\* a unit has been admitted by PassesFilters under a positive radius
AdmittedUnderRadius ==
    /\ result.op = "PassesFilters"
    /\ result.val
    /\ radius > 0

Written == Len(files[outFile.path].lines)

\* C28: while a session is active eventCount is the number of records
\* written to the session's file and is at most maxEvents; it never
\* decreases during the session; and each Record* call admitted below the cap
\* adds one to it and appends one line.
C28_CountIsWritten ==
    /\ []((active /\ outFile.open)
             => /\ eventCount = Written
                /\ eventCount <= maxEvents)
    /\ [][/\ (active /\ active' /\ sid' = sid) => eventCount' >= eventCount
          /\ \A t \in Threads :
                (/\ pc[t] = "record"
                 /\ pc'[t] = "idle"
                 /\ outFile.open
                 /\ eventCount < maxEvents)
                   => /\ eventCount' = eventCount + 1
                      /\ Written' = Written + 1]_vars

\* the step writes the record with which the number of records written to a
\* session's file reaches maxEvents
CappingWrite ==
    \E p \in DOMAIN files' :
       /\ p \notin DOMAIN files \/ files'[p] # files[p]
       /\ Len(files'[p].lines) = maxEvents

\* C29: the cap diagnostic is emitted once in a session, by the operation
\* that writes the record with which the number of written records reaches
\* maxEvents, and by no later call: a step emits the diagnostic, once, if and
\* only if it writes that record.
C29_DiagnosticWithCappingRecord ==
    [][/\ diag' \in {diag, diag + 1}
       /\ (diag' = diag + 1) <=> CappingWrite]_vars

\* C30: no two threads are inside the bodies of StartSession, StopSession or
\* a Record* call at once, a thread inside a Record* body holds the mutex,
\* and a public operation reads or writes the output handle, eventCount and
\* the filter fields only under the mutex: never while another thread holds
\* it.
C30_MutualExclusion ==
    /\ [](\A t \in Threads, u \in Threads :
             /\ pc[t] = "record" => mutex = t
             /\ (pc[t] # "idle" /\ pc[u] # "idle") => t = u)
    /\ [][\A t \in Threads : InfoReadFields(t) => mutex \in {NoThread, t}]_vars

\* the parameters a session resolves at its start
sessionParameters == <<radius, maxEvents, mapFilter, instanceFilter,
                       recorderX, recorderY, recorderZ, recorderMapId>>

\* C31: while a session is active no operation other than StopSession
\* changes its radius, its cap, its map and instance filters or its anchor;
\* a LoadConfig during the session leaves the radius and the cap as they
\* were resolved at the start.
C31_ParametersFixedWhileActive ==
    [][(active /\ result'.op # "StopSession")
          => UNCHANGED sessionParameters]_vars

\* thread t is in a call that has not returned
InCall(t) == frame[t] # NoFrame \/ pc[t] # "idle"

\* C32: under fair scheduling every StartSession, StopSession,
\* GetSessionInfo and Record* call returns: the mutex is held only by a
\* thread that is inside a Record* body and is about to write, it is free
\* whenever no thread is inside a body (every early return has released it),
\* and every call that has begun is eventually over.
C32_EveryCallReturns ==
    /\ [](\A t \in Threads :
             /\ mutex = t => (pc[t] = "record" /\ ENABLED RecordWrite(t))
             /\ (\A u \in Threads : pc[u] = "idle") => mutex = NoThread)
    /\ \A t \in Threads : InCall(t) ~> ~InCall(t)
\* a Record* call has returned at the cap while the other thread is about
\* to call StopSession
C32_Witness ==
    /\ mutex = NoThread
    /\ \A t \in Threads : pc[t] = "idle"
    /\ frame[1] = NoFrame
    /\ frame[2] = CommandFrame(".record stop")
    /\ active
    /\ eventCount > maxEvents

\* the entities of the event thread t is about to write
Involved(t) == {frame[t].a, frame[t].b} \cap Units

\* C33: in a session started with an origin entity, whose instance filter
\* is that entity's nonzero instance id, no event is written of which every
\* entity is in another instance than the instance filter.
C33_OtherInstancesDropped ==
    [][\A t \in Threads :
          (/\ pc[t] = "record"
           /\ pc'[t] = "idle"
           /\ files' # files
           /\ instanceFilter # 0)
             => \E u \in Involved(t) : UnitInstance(u) = instanceFilter]_vars

\* the filters and the anchor a fresh session has after the start call c
\* under the configuration in force
Fresh(c) ==
    [map |-> ResolvedMap(c),
     instance |-> IF c.player # NullUnit THEN UnitInstance(c.player) ELSE 0,
     radius |-> IF c.radius > 0 THEN c.radius ELSE cfgDefaultRadius,
     x |-> IF c.player # NullUnit THEN UnitX(c.player) ELSE 0,
     y |-> IF c.player # NullUnit THEN UnitY(c.player) ELSE 0,
     z |-> IF c.player # NullUnit THEN UnitZ(c.player) ELSE 0,
     amap |-> IF c.player # NullUnit THEN UnitMap(c.player) ELSE 0]

\* C34: a session just started is a fresh instance: its map filter, its
\* instance filter, its radius and its anchor are given by the arguments of
\* the StartSession call and the configuration in force at the call (the
\* radius is the override if one is given, else the current DefaultRadius),
\* whatever sessions and configuration loads came before; its eventCount
\* counts the start record alone.
C34_StartIsFresh ==
    [][\A c \in SessionCalls :
          ((\E t \in Threads : StartSession(t, c.name, c.player, c.map, c.radius, TRUE, TRUE))
           /\ result'.val)
          => /\ [map |-> mapFilter', instance |-> instanceFilter',
                 radius |-> radius', x |-> recorderX', y |-> recorderY',
                 z |-> recorderZ', amap |-> recorderMapId'] = Fresh(c)
             /\ eventCount' = 1]_vars

\* the key of the output file of the session a step has started
StartedKey == [name |-> sessionName', sec |-> NowSec]

\* C35: the output file of a session is keyed by its name and the second of
\* its start.  A successful StartSession opens the file of that key, empty
\* but for its own start line, and leaves every file of another name or
\* another second as it was; every other step changes no file but the one of
\* the session that is open, and never its owner; no file is ever removed.
C35_FilesKeyedByNameAndSecond ==
    [][/\ DOMAIN files \subseteq DOMAIN files'
       /\ IF result'.op = "StartSession" /\ result'.val
          THEN /\ outFile'.path = StartedKey
               /\ \A p \in DOMAIN files \ {StartedKey} : files'[p] = files[p]
               /\ files'[StartedKey].owner = sid'
               /\ \A i \in 1..Len(files'[StartedKey].lines) :
                     /\ files'[StartedKey].lines[i].event = "record_start"
                     /\ files'[StartedKey].lines[i].session = StartedKey.name
          ELSE \A p \in DOMAIN files :
                  files'[p] # files[p]
                     => /\ outFile.open
                        /\ p = outFile.path
                        /\ files'[p].owner = files[p].owner]_vars
\* a second session has been started with the name and in the second of the
\* first: there is one file, and it holds the start line of the second
\* session alone
C35_Witness ==
    /\ sid = 2
    /\ active
    /\ DOMAIN files = {outFile.path}
    /\ files[outFile.path].owner = 2
    /\ Len(files[outFile.path].lines) = 1
    /\ files[outFile.path].lines[1].event = "record_start"

\* C36: RecordEnterCombat(unit, victim) is admitted if and only if its
\* source unit passes the session filter, whatever its target: a call whose
\* source fails the filter is dropped even when its target passes.
C36_EnterCombatSourceOnly ==
    \A t \in Threads :
       (pc[t] = "idle" /\ MutexFree)
          => \A a \in FirstArgs("enter_combat"), b \in SecondArgs("enter_combat") :
                CanAdmit(t, "enter_combat", a, b) <=> Passes(a)
\* an enter-combat line has been written whose source passes the filter and
\* whose target does not, in a session whose filter would let the target of
\* some call pass but not its source
C36_Witness ==
    /\ \E i \in 1..Len(files[outFile.path].lines) :
          LET line == files[outFile.path].lines[i]
          IN  /\ line.event = "enter_combat"
              /\ Passes(line.first)
              /\ line.second \in Units
              /\ ~Passes(line.second)
    /\ \E a \in Units, b \in Units : ~Passes(a) /\ Passes(b)

\* C37: IsActiveForMap(mapId, instanceId), called beside StopSession and
\* StartSession, returns true only if at one instant of the call a session
\* was active whose map filter and instance filter both matched: when no
\* session was started during the call, only if the scope matched when the
\* call began or matches when it returns; never on the active flag of a
\* session together with the filters its stop has reset.
C37_ScopeOfOneInstant ==
    (result.op = "IsActiveForMap" /\ result.val)
        => \/ result.matched
           \/ IsActiveForMap(result.mapId, result.instanceId)
           \/ result.sid # sid

\* C38: the record_start and record_stop lines are valid JSON for every
\* session name StartSession accepts, names with a quote or a backslash
\* included: their session field, and the file field of the start line, are
\* bodies of valid JSON strings that read back as the name and the path.
C38_SyntheticLinesValid ==
    /\ result.op \in {"StartEvent", "StopEvent"}
          => /\ ValidJsonBody(result.output.session)
             /\ JsonUnescape(result.output.session) = result.name
    /\ result.op = "StartEvent"
          => /\ ValidJsonBody(result.output.file)
             /\ JsonUnescape(result.output.file) = FileNameText(result.name)

\* C39: for every maxEvents the counter can hold, the largest included,
\* once the cap diagnostic of the session has been emitted eventCount stays
\* at or above maxEvents (the increment past the cap does not wrap around),
\* and no later Record* call writes a line or emits the diagnostic again.
C39_NoWrapPastCap ==
    /\ []((active /\ diag >= 1) => eventCount >= maxEvents)
    /\ [][\A t \in Threads :
             (active /\ diag >= 1 /\ pc[t] = "record" /\ pc'[t] = "idle")
                => /\ files' = files
                   /\ diag' = diag]_vars

\* C40: with the configuration held fixed during the session, the lines of
\* the session's file, the record_start and record_stop lines and the lines
\* written before the first state included, never number more than maxEvents,
\* whatever the interleaving of Record* and StopSession calls.
C40_LinesWithinCap ==
    WrapElided + Len(files[FilterFile].lines) <= maxEvents

=============================================================================
